---------------------------- MODULE Spec2Model ----------------------------
(***************************************************************************)
(* GPU thermal reporting: the CSV ingestion pipeline (data_processor.py)   *)
(* and the store it writes to (database.py).                               *)
(*                                                                         *)
(* Text is a sequence of one-character strings, so that trimming,          *)
(* lower-casing, substring search and date parsing are computed on the     *)
(* characters.  A nullable value is a sequence of length 0 (None) or 1.    *)
(* A pandas scalar that may be missing is Val(x) or NA (NaN / NaT).        *)
(***************************************************************************)
EXTENDS Integers, Sequences, FiniteSets, TLC

(* ------------------------------ bounds -------------------------------- *)

\* committed write transactions per behaviour (also the range of the clock)
MaxCommits == 3
\* stored event records per behaviour
MaxEvents == 2

(* --------------------------- text primitives -------------------------- *)

Range(s) == {s[i] : i \in 1..Len(s)}

Min(S) == CHOOSE x \in S : \A y \in S : x <= y

\* Python str.isspace() characters that occur in the inputs
Whitespace == {" ", "\t"}

UpperCase ==
    <<"A","B","C","D","E","F","G","H","I","J","K","L","M",
      "N","O","P","Q","R","S","T","U","V","W","X","Y","Z">>

LowerCase ==
    <<"a","b","c","d","e","f","g","h","i","j","k","l","m",
      "n","o","p","q","r","s","t","u","v","w","x","y","z">>

lower_char(c) ==
    IF \E i \in 1..Len(UpperCase) : UpperCase[i] = c
    THEN LowerCase[CHOOSE i \in 1..Len(UpperCase) : UpperCase[i] = c]
    ELSE c

\* str.lower()
str_lower(s) == [i \in 1..Len(s) |-> lower_char(s[i])]

RECURSIVE str_lstrip(_)
str_lstrip(s) ==
    IF Len(s) > 0 /\ s[1] \in Whitespace THEN str_lstrip(Tail(s)) ELSE s

RECURSIVE str_rstrip(_)
str_rstrip(s) ==
    IF Len(s) > 0 /\ s[Len(s)] \in Whitespace
    THEN str_rstrip(SubSeq(s, 1, Len(s) - 1))
    ELSE s

\* a plausible slip: only leading whitespace is removed
str_strip_leading_only(s) == str_lstrip(s)

\* str.strip()
str_strip(s) == str_rstrip(str_lstrip(s))

\* Python's `sub in s`
str_contains(s, sub) ==
    \E i \in 1..(Len(s) - Len(sub) + 1) : SubSeq(s, i, i + Len(sub) - 1) = sub

DigitChars == <<"0","1","2","3","4","5","6","7","8","9">>

is_digit(c) == \E i \in 1..10 : DigitChars[i] = c

digit_val(c) == (CHOOSE i \in 1..10 : DigitChars[i] = c) - 1

is_digits(s) == Len(s) > 0 /\ \A i \in 1..Len(s) : is_digit(s[i])

RECURSIVE int_of(_)
int_of(s) ==
    IF Len(s) = 0 THEN 0
    ELSE 10 * int_of(SubSeq(s, 1, Len(s) - 1)) + digit_val(s[Len(s)])

(* --------------------------- pandas scalars --------------------------- *)

None == <<>>
Some(x) == <<x>>

\* a missing scalar (NaN of a float column, NaT of a datetime column)
NA == [na |-> TRUE, v |-> 0]
Val(x) == [na |-> FALSE, v |-> x]

\* an empty CSV cell is read as NaN; text cells keep their characters
NaNCell == <<>>

\* pd.to_datetime(errors='coerce') on the date spellings of the inputs:
\* YYYY-MM-DD becomes the day number YYYYMMDD, anything else NaT
to_datetime(cell) ==
    IF /\ Len(cell) = 10
       /\ cell[5] = "-" /\ cell[8] = "-"
       /\ is_digits(SubSeq(cell, 1, 4))
       /\ is_digits(SubSeq(cell, 6, 7))
       /\ is_digits(SubSeq(cell, 9, 10))
       /\ int_of(SubSeq(cell, 6, 7)) \in 1..12
       /\ int_of(SubSeq(cell, 9, 10)) \in 1..31
    THEN Val(int_of(SubSeq(cell, 1, 4)) * 10000
             + int_of(SubSeq(cell, 6, 7)) * 100
             + int_of(SubSeq(cell, 9, 10)))
    ELSE NA

\* the number spellings of the inputs: digits, or digits '.' one or two digits
is_decimal(cell) ==
    \E i \in 2..(Len(cell) - 1) :
        /\ cell[i] = "."
        /\ Len(cell) - i <= 2
        /\ is_digits(SubSeq(cell, 1, i - 1))
        /\ is_digits(SubSeq(cell, i + 1, Len(cell)))

is_number(cell) == is_digits(cell) \/ is_decimal(cell)

\* the float a number spelling denotes, in hundredths
float_of(cell) ==
    IF is_digits(cell) THEN 100 * int_of(cell)
    ELSE LET i == CHOOSE j \in 2..(Len(cell) - 1) : cell[j] = "."
             frac == SubSeq(cell, i + 1, Len(cell))
         IN  100 * int_of(SubSeq(cell, 1, i - 1))
             + (IF Len(frac) = 1 THEN 10 * int_of(frac) ELSE int_of(frac))

\* pd.to_numeric(errors='coerce') on the number spellings of the inputs
to_numeric(cell) == IF is_number(cell) THEN Val(float_of(cell)) ELSE NA

\* Series.astype(str): NaN becomes the text 'nan'
astype_str(cell) == IF cell = NaNCell THEN <<"n","a","n">> ELSE cell


(* ------------------------------ CSV files ----------------------------- *)

\* the spellings used in the input files
n1 == <<"n","1">>
n2 == <<"n","2">>
G1 == <<"G","1">>
G2 == <<"G","2">>
G2_padded == <<" ","G","2"," ">>
d0317 == <<"2","0","2","5","-","0","3","-","1","7">>
d0318 == <<"2","0","2","5","-","0","3","-","1","8">>
d0415 == <<"2","0","2","5","-","0","4","-","1","5">>
not_a_date == <<"n","o","t","-","a","-","d","a","t","e">>
t44 == <<"4","4">>
t0 == <<"0">>
t86 == <<"8","6">>
hot == <<"h","o","t">>
a28 == <<"2","8">>
throttled == <<"t","h","r","o","t","t","l","e","d">>
failed == <<"f","a","i","l","e","d">>
Thermally_Failed ==
    <<"T","h","e","r","m","a","l","l","y"," ","F","a","i","l","e","d">>
THERMALLY_FAILED_trailing ==
    <<"T","H","E","R","M","A","L","L","Y"," ","F","A","I","L","E","D"," "," ">>
thermal_throttling_leading ==
    <<" ","t","h","e","r","m","a","l"," ","t","h","r","o","t","t","l","i","n","g">>
Throttling == <<"T","h","r","o","t","t","l","i","n","g">>
overheated == <<"o","v","e","r","h","e","a","t","e","d">>
modelA == <<"A","1","0","0">>
modelH == <<"H","1","0","0">>
rack1 == <<"r","1">>

\* one CSV line, by logical field; MakeFile lays it out under a header
RowPool ==
    { [node |-> n1, gpu_id |-> G1, timestamp |-> d0317, temperature |-> t44,
       avg_temperature |-> a28, reason |-> Thermally_Failed, date |-> d0317,
       model |-> modelA, location |-> rack1],
      [node |-> n2, gpu_id |-> G1, timestamp |-> d0318, temperature |-> t0,
       avg_temperature |-> NaNCell, reason |-> THERMALLY_FAILED_trailing,
       date |-> d0318, model |-> modelH, location |-> NaNCell],
      [node |-> n2, gpu_id |-> G2_padded, timestamp |-> d0415, temperature |-> hot,
       avg_temperature |-> NaNCell, reason |-> thermal_throttling_leading,
       date |-> d0415, model |-> modelH, location |-> NaNCell],
      [node |-> n1, gpu_id |-> G2, timestamp |-> not_a_date, temperature |-> t86,
       avg_temperature |-> NaNCell, reason |-> Throttling, date |-> d0415,
       model |-> modelA, location |-> rack1],
      [node |-> n1, gpu_id |-> G2, timestamp |-> d0415, temperature |-> t86,
       avg_temperature |-> NaNCell, reason |-> overheated, date |-> d0415,
       model |-> modelA, location |-> rack1],
      [node |-> n2, gpu_id |-> G1, timestamp |-> d0317, temperature |-> t44,
       avg_temperature |-> a28, reason |-> NaNCell, date |-> NaNCell,
       model |-> modelA, location |-> NaNCell],
      [node |-> n1, gpu_id |-> G2, timestamp |-> d0318, temperature |-> t86,
       avg_temperature |-> a28, reason |-> throttled, date |-> not_a_date,
       model |-> modelA, location |-> rack1] }

\* data_processor.py:21-29, in declaration order
column_mappings ==
    << [expected |-> "node", names |-> <<"node", "host", "server">>],
       [expected |-> "timestamp", names |-> <<"timestamp", "time", "datetime">>],
       [expected |-> "gpu_id", names |-> <<"gpu_id", "gpu", "device_id", "device">>],
       [expected |-> "temperature",
        names |-> <<"temp", "temperature", "gpu_temp", "thermal">>],
       [expected |-> "avg_temperature",
        names |-> <<"avg_temp", "average_temp", "avg_temperature">>],
       [expected |-> "reason",
        names |-> <<"reason", "issue_type", "type", "status", "event_type">>],
       [expected |-> "date", names |-> <<"date", "event_date">>] >>

\* the logical field a header spelling carries in the input files
FieldOf(name) ==
    IF \E k \in 1..Len(column_mappings) : name \in Range(column_mappings[k].names)
    THEN column_mappings[CHOOSE k \in 1..Len(column_mappings) :
                             name \in Range(column_mappings[k].names)].expected
    ELSE name

\* the columns of create_sample_csv, and two columns no field accepts
SampleHeader ==
    <<"node", "timestamp", "gpu_id", "temp", "avg_temp", "reason", "date",
      "model", "location">>

AliasHeader ==
    <<"host", "time", "device", "thermal", "average_temp", "status", "event_date",
      "model", "location">>

\* both the first alias and the canonical spelling of the temperature field
TwoTemperatureHeader ==
    <<"node", "timestamp", "gpu_id", "temp", "temperature", "reason">>

required_columns == <<"node", "gpu_id", "timestamp", "reason">>

\* SampleHeader without the columns of `drop`
HeaderWithout(drop) == SelectSeq(SampleHeader, LAMBDA c : FieldOf(c) \notin drop)

IncompleteHeaders ==
    { HeaderWithout(drop) :
        drop \in {{"reason"}, {"gpu_id", "node"}, Range(required_columns)} }

\* the files hold no row, one row of the pool, or a 'failed' row of the pool
\* followed by any row of the pool
RowSeqs ==
    {<<>>} \cup { <<r>> : r \in RowPool }
    \cup { <<r, q>> : r \in { x \in RowPool : x.reason \in {Thermally_Failed, THERMALLY_FAILED_trailing} },
                      q \in RowPool }

MakeFile(header, rows) ==
    [ readable |-> TRUE,
      columns |-> header,
      rows |-> [r \in 1..Len(rows) |->
                   [c \in 1..Len(header) |-> rows[r][FieldOf(header[c])]]] ]

UnreadableFile == [readable |-> FALSE, columns |-> <<>>, rows |-> <<>>]

OneRow == CHOOSE r \in RowPool : r.reason = Thermally_Failed

Files ==
    {UnreadableFile}
    \cup { MakeFile(SampleHeader, rs) : rs \in RowSeqs }
    \cup { MakeFile(AliasHeader, <<r>>) : r \in RowPool }
    \cup { MakeFile(h, <<OneRow>>) : h \in IncompleteHeaders \cup {TwoTemperatureHeader} }

(* ------------------------- ingestion pipeline ------------------------- *)

NoError == [type |-> "", missing |-> <<>>]
Error(t) == [type |-> t, missing |-> <<>>]

HasColumn(df, name) == name \in Range(df.columns)

\* df[name] is one Series only when one column bears the name
ColumnCount(df, name) == Cardinality({c \in 1..Len(df.columns) : df.columns[c] = name})

ColumnIndex(df, name) == Min({c \in 1..Len(df.columns) : df.columns[c] = name})

Cell(df, r, name) == df.rows[r][ColumnIndex(df, name)]

\* a column of numbers and empty cells is read with a numeric dtype, any
\* other column (and every column of a file without data rows) as object
read_dtype(file, c) ==
    IF /\ Len(file.rows) > 0
       /\ \A r \in 1..Len(file.rows) :
             file.rows[r][c] = NaNCell \/ is_number(file.rows[r][c])
    THEN "numeric"
    ELSE "object"

\* pd.read_csv: the frame keeps each row's position in the file as its index
read_csv(file) ==
    [ columns |-> file.columns,
      dtypes |-> [c \in 1..Len(file.columns) |-> read_dtype(file, c)],
      index |-> [r \in 1..Len(file.rows) |-> r],
      rows |-> file.rows ]

\* a plausible slip: the loop over the aliases has no break
last_present(names, df) ==
    names[CHOOSE k \in 1..Len(names) :
             /\ HasColumn(df, names[k])
             /\ \A j \in (k + 1)..Len(names) : ~HasColumn(df, names[j])]

\* the first alias of the field that is a column of the frame
first_present(names, df) ==
    names[Min({k \in 1..Len(names) : HasColumn(df, names[k])})]

\* the dict built by the loops of _map_columns: (source name, expected name)
column_mapping(df) ==
    { <<first_present(column_mappings[k].names, df), column_mappings[k].expected>> :
        k \in { j \in 1..Len(column_mappings) :
                  \E a \in Range(column_mappings[j].names) : HasColumn(df, a) } }

renamed(mapping, name) ==
    IF \E m \in mapping : m[1] = name
    THEN (CHOOSE m \in mapping : m[1] = name)[2]
    ELSE name

_map_columns(df) ==
    [df EXCEPT !.columns = [c \in 1..Len(df.columns) |->
                               renamed(column_mapping(df), df.columns[c])]]

\* df[name] = df[name].<F>: the cells of the column are replaced
with_column(df, name, F(_)) ==
    [df EXCEPT !.rows =
        [r \in 1..Len(df.rows) |->
            [c \in 1..Len(df.columns) |->
                IF df.columns[c] = name THEN F(df.rows[r][c]) ELSE df.rows[r][c]]]]

\* df[keep]: the rows (with their index) that satisfy the mask
RECURSIVE kept_positions(_, _, _)
kept_positions(df, Keep(_), r) ==
    IF r > Len(df.rows) THEN <<>>
    ELSE (IF Keep(r) THEN <<r>> ELSE <<>>) \o kept_positions(df, Keep, r + 1)

filter_rows(df, Keep(_)) ==
    LET pos == kept_positions(df, Keep, 1)
    IN  [df EXCEPT !.rows = [k \in 1..Len(pos) |-> df.rows[pos[k]]],
                   !.index = [k \in 1..Len(pos) |-> df.index[pos[k]]]]

\* a plausible slip: the search stops at the first missing column
missing_columns_first_only(df) ==
    LET absent == SelectSeq(required_columns, LAMBDA col : ~HasColumn(df, col))
    IN  IF absent = <<>> THEN <<>> ELSE <<Head(absent)>>

\* data_processor.py:84-85
missing_columns(df) == SelectSeq(required_columns, LAMBDA col : ~HasColumn(df, col))

\* a plausible slip: rows with an unparseable timestamp are kept
keep_invalid_timestamps(df) == df

\* data_processor.py:92-94
drop_invalid_timestamps(df) ==
    filter_rows(df, LAMBDA r : ~Cell(df, r, "timestamp").na)

\* data_processor.py:112-118
reason_mapping ==
    { << <<"t","h","e","r","m","a","l","l","y"," ","f","a","i","l","e","d">>, failed >>,
      << <<"t","h","e","r","m","a","l"," ","f","a","i","l","u","r","e">>, failed >>,
      << throttled, throttled >>,
      << <<"t","h","e","r","m","a","l"," ","t","h","r","o","t","t","l","i","n","g">>,
         throttled >>,
      << <<"t","h","r","o","t","t","l","i","n","g">>, throttled >> }

\* reason_mapping.get(x, x)
reason_get(x) ==
    IF \E m \in reason_mapping : m[1] = x
    THEN (CHOOSE m \in reason_mapping : m[1] = x)[2]
    ELSE x

valid_reasons == {throttled, failed}

\* data_processor.py:124-126
drop_invalid_reasons(df) ==
    filter_rows(df, LAMBDA r : Cell(df, r, "reason") \in valid_reasons)

\* data_processor.py:108-126; .str raises on a column that is not text
clean_reason(df) ==
    LET stripped == with_column(df, "reason", str_strip)
        mapped == with_column(stripped, "reason", LAMBDA x : reason_get(str_lower(x)))
    IN  drop_invalid_reasons(mapped)

\* _clean_data: the cleaned frame, or the exception it raises
_clean_data(df) ==
    IF missing_columns(df) # <<>>
    THEN [err |-> [type |-> "ValueError: Missing required columns",
                   missing |-> missing_columns(df)],
          df |-> df]
    ELSE
    LET d1 == drop_invalid_timestamps(with_column(df, "timestamp", to_datetime))
        d2 == IF HasColumn(d1, "date") THEN with_column(d1, "date", to_datetime) ELSE d1
    IN  IF ColumnCount(d2, "temperature") > 1 \/ ColumnCount(d2, "avg_temperature") > 1
        THEN [err |-> Error("TypeError"), df |-> d2]
        ELSE
        LET d3 == with_column(with_column(d2, "temperature", to_numeric),
                              "avg_temperature", to_numeric)
        IN  IF d3.dtypes[ColumnIndex(d3, "reason")] # "object"
            THEN [err |-> Error("AttributeError"), df |-> d3]
            ELSE
            LET d4 == clean_reason(d3)
                d5 == with_column(d4, "node", LAMBDA x : str_strip(astype_str(x)))
                d6 == with_column(d5, "gpu_id", LAMBDA x : str_strip(astype_str(x)))
            IN  [err |-> NoError, df |-> d6]

\* process_csv_file up to the cleaned frame: read, map, clean
prepare(file) ==
    IF ~file.readable
    THEN [err |-> Error("FileNotFoundError"), df |-> read_csv(file)]
    ELSE _clean_data(_map_columns(read_csv(file)))

\* row.get(name): the cell, or None when the frame has no such column
row_get(df, r, name) == IF HasColumn(df, name) THEN Some(Cell(df, r, name)) ELSE None

\* str(row.get('reason', '')).lower()
reason_text(df, r) ==
    IF HasColumn(df, "reason") THEN str_lower(Cell(df, r, "reason")) ELSE <<>>

\* a plausible slip: a misspelt literal in the second branch
issue_type_misspelt(df, r) ==
    IF str_contains(reason_text(df, r), throttled) THEN Some(throttled)
    ELSE IF str_contains(reason_text(df, r), failed) THEN Some(<<"f","a","i","l">>)
    ELSE None

\* a plausible slip: the first test is shortened to the ending of the word
issue_type_by_ending(df, r) ==
    IF str_contains(reason_text(df, r), <<"e","d">>) THEN Some(throttled)
    ELSE IF str_contains(reason_text(df, r), failed) THEN Some(failed)
    ELSE None

\* data_processor.py:147-151
issue_type_of(df, r) ==
    IF str_contains(reason_text(df, r), throttled) THEN Some(throttled)
    ELSE IF str_contains(reason_text(df, r), failed) THEN Some(failed)
    ELSE None

\* data_processor.py:142-164
events_data(df) ==
    [r \in 1..Len(df.rows) |->
        [ node |-> Cell(df, r, "node"),
          gpu_id |-> Cell(df, r, "gpu_id"),
          timestamp |-> Cell(df, r, "timestamp"),
          temperature |-> row_get(df, r, "temperature"),
          avg_temperature |-> row_get(df, r, "avg_temperature"),
          issue_type |-> issue_type_of(df, r),
          reason |-> row_get(df, r, "reason"),
          date |-> row_get(df, r, "date") ]]

\* a plausible slip: only the first (gpu_id, node) pair is taken
unique_gpus_first_only(df) ==
    IF Len(df.rows) = 0 THEN <<>>
    ELSE << <<Cell(df, 1, "gpu_id"), Cell(df, 1, "node")>> >>

\* df[['gpu_id', 'node']].drop_duplicates(), in order of first occurrence
unique_gpus(df) ==
    LET pair(r) == <<Cell(df, r, "gpu_id"), Cell(df, r, "node")>>
        pos == kept_positions(df, LAMBDA r : \A q \in 1..(r - 1) : pair(q) # pair(r), 1)
    IN  [k \in 1..Len(pos) |-> pair(pos[k])]

\* the cell of a file row under the column that carries the logical field
raw_cell(file, r, name) ==
    file.rows[r][Min({c \in 1..Len(file.columns) : FieldOf(file.columns[c]) = name})]

\* history: what the file said about the rows that were stored
origin_of(file, df) ==
    [k \in 1..Len(df.rows) |->
        [ reason |-> raw_cell(file, df.index[k], "reason"),
          timestamp |-> raw_cell(file, df.index[k], "timestamp"),
          temperature |-> IF HasColumn(df, "temperature")
                          THEN Some(raw_cell(file, df.index[k], "temperature"))
                          ELSE None,
          model |-> IF "model" \in Range(file.columns)
                    THEN Some(raw_cell(file, df.index[k], "model"))
                    ELSE None ]]

\* the required fields none of whose accepted spellings is in the header
AbsentRequired(file) ==
    { field \in Range(required_columns) :
        \A c \in 1..Len(file.columns) : FieldOf(file.columns[c]) # field }

\* the classification the specification gives to the reason spellings of the
\* input files ('Thermally Failed', 'THERMALLY FAILED  ', ' thermal
\* throttling', 'Throttling', 'throttled'); None for a spelling it rejects
ExpectedClass(cell) ==
    IF cell \in {Thermally_Failed, THERMALLY_FAILED_trailing} THEN Some(failed)
    ELSE IF cell \in {thermal_throttling_leading, Throttling, throttled}
    THEN Some(throttled)
    ELSE None

\* the timestamp spellings of the input files that are dates
ParseableStamp(cell) == cell \in {d0317, d0318, d0415}

\* history: what is known of a file before it is processed
FileFacts(file) ==
    LET complete == file.readable /\ AbsentRequired(file) = {}
    IN  [ readable |-> file.readable,
          rows |-> Len(file.rows),
          absent |-> AbsentRequired(file),
          nat_rows |-> IF complete
                       THEN Cardinality({r \in 1..Len(file.rows) :
                                ~ParseableStamp(raw_cell(file, r, "timestamp"))})
                       ELSE 0,
          recognised |-> IF complete
                         THEN Cardinality({r \in 1..Len(file.rows) :
                                  /\ ParseableStamp(raw_cell(file, r, "timestamp"))
                                  /\ ExpectedClass(raw_cell(file, r, "reason")) # None})
                         ELSE 0 ]

NoFacts == [readable |-> TRUE, rows |-> 0, absent |-> {}, nat_rows |-> 0,
            recognised |-> 0]

\* everything process_csv_file computes from a file before it opens a
\* session: the exception raised, or the event dicts and the (gpu_id, node)
\* pairs of the cleaned frame
ingest(file) ==
    LET prep == prepare(file)
        ok == prep.err = NoError
    IN  [ file |-> file,
          err |-> prep.err,
          data |-> IF ok THEN events_data(prep.df) ELSE <<>>,
          gpus |-> IF ok THEN unique_gpus(prep.df) ELSE <<>>,
          origin |-> IF ok THEN origin_of(file, prep.df) ELSE <<>>,
          facts |-> FileFacts(file) ]

Ingestions == { ingest(file) : file \in Files }

(* -------------------------------- store ------------------------------- *)

VARIABLES
    events,        \* table gpu_thermal_events, in insertion order
    origin,        \* history: for each stored event, the CSV cells it came from
    gpu_metadata,  \* table gpu_metadata, in insertion order
    clock,         \* datetime.utcnow(), one tick per committed transaction
    pc,            \* per worker thread: "idle", "query" or "commit"
    call,          \* per worker: the call in progress
    last           \* history: outcome of the call that finished most recently

vars == <<events, origin, gpu_metadata, clock, pc, call, last>>

store == <<events, gpu_metadata>>

\* the NOT NULL columns of GPUThermalEvent (database.py:28-33)
not_null_ok(e) == e.issue_type # None /\ ~e.timestamp.na

stored(data, now) == [k \in 1..Len(data) |-> data[k] @@ [created_at |-> now]]

\* a NaT handed to a DateTime column is sent as the literal 'NaT', which
\* the server refuses as a timestamp; a NaN handed to a Float column is a
\* float the server stores
datetime_ok(e) == e.date # Some(NA)

\* the exception of a bulk insert: the store is unavailable, a value is
\* refused, or a row breaks a constraint (all are SQLAlchemyError)
bulk_error(data, fails) ==
    IF fails THEN "OperationalError"
    ELSE IF \E k \in 1..Len(data) : ~datetime_ok(data[k]) THEN "DataError"
    ELSE IF \E k \in 1..Len(data) : ~not_null_ok(data[k]) THEN "IntegrityError"
    ELSE ""

\* a plausible slip: no rollback, the rows flushed before the failure stay
bulk_insert_no_rollback(table, data, now, fails) ==
    IF bulk_error(data, fails) # ""
    THEN [error |-> bulk_error(data, fails), count |-> 0,
          table |-> table \o SubSeq(stored(data, now), 1, 1)]
    ELSE [error |-> "", count |-> Len(data), table |-> table \o stored(data, now)]

\* a plausible slip: only the first event is written, all are counted
bulk_insert_first_only(table, data, now, fails) ==
    IF bulk_error(data, fails) # ""
    THEN [error |-> bulk_error(data, fails), count |-> 0, table |-> table]
    ELSE [error |-> "", count |-> Len(data),
          table |-> table \o SubSeq(stored(data, now), 1, 1)]

\* a plausible slip: an event equal to a stored one is not written again
bulk_insert_dedup(table, data, now, fails) ==
    LET fresh == SelectSeq(data, LAMBDA e :
                     \A k \in 1..Len(table) : [table[k] EXCEPT !.created_at = now]
                                                # e @@ [created_at |-> now])
    IN  IF bulk_error(data, fails) # ""
        THEN [error |-> bulk_error(data, fails), count |-> 0, table |-> table]
        ELSE [error |-> "", count |-> Len(fresh), table |-> table \o stored(fresh, now)]

\* a plausible slip: the table is rewritten with the new rows
bulk_insert_overwrite(table, data, now, fails) ==
    IF bulk_error(data, fails) # ""
    THEN [error |-> bulk_error(data, fails), count |-> 0, table |-> table]
    ELSE [error |-> "", count |-> Len(data), table |-> stored(data, now)]

\* DatabaseManager.bulk_insert_events: one transaction, rolled back on error
bulk_insert_events(table, data, now, fails) ==
    IF bulk_error(data, fails) # ""
    THEN [error |-> bulk_error(data, fails), count |-> 0, table |-> table]
    ELSE [error |-> "", count |-> Len(data), table |-> table \o stored(data, now)]

\* Python truthiness of an optional text / number argument
truthy_str(opt) == opt # None /\ Len(opt[1]) > 0
truthy_num(opt) == opt # None /\ opt[1] # 0

NoArgs == [gpu_id |-> <<>>, node |-> None, model |-> None, location |-> None,
           max_temp |-> None]

\* session.query(GPUMetadata).filter(gpu_id == ...).first()
meta_query(table, gpu_id) ==
    IF \E k \in 1..Len(table) : table[k].gpu_id = gpu_id
    THEN Some(table[Min({k \in 1..Len(table) : table[k].gpu_id = gpu_id})])
    ELSE None

\* a plausible slip: every argument is assigned, supplied or not
meta_assign_all(loaded, args, now) ==
    [loaded EXCEPT !.node = args.node, !.model = args.model,
                   !.location = args.location, !.max_temp = args.max_temp,
                   !.updated_at = now]

\* the attribute assignments of the update branch, on the loaded object
meta_assign(loaded, args, now) ==
    [loaded EXCEPT
        !.node = IF truthy_str(args.node) THEN args.node ELSE @,
        !.model = IF truthy_str(args.model) THEN args.model ELSE @,
        !.location = IF truthy_str(args.location) THEN args.location ELSE @,
        !.max_temp = IF truthy_num(args.max_temp) THEN args.max_temp ELSE @,
        !.updated_at = now]

\* the UPDATE flushed at commit: the columns whose value differs from the
\* loaded one are written to the row with the loaded primary key
meta_flush_update(table, loaded, changed) ==
    [k \in 1..Len(table) |->
        IF table[k].id # loaded.id THEN table[k]
        ELSE [table[k] EXCEPT
                 !.node = IF changed.node # loaded.node THEN changed.node ELSE @,
                 !.model = IF changed.model # loaded.model THEN changed.model ELSE @,
                 !.location = IF changed.location # loaded.location
                              THEN changed.location ELSE @,
                 !.max_temp = IF changed.max_temp # loaded.max_temp
                              THEN changed.max_temp ELSE @,
                 !.updated_at = IF changed.updated_at # loaded.updated_at
                                THEN changed.updated_at ELSE @]]

\* a plausible slip: the column is declared without unique=True
unique_unchecked(table, gpu_id) == TRUE

\* the UNIQUE constraint on gpu_metadata.gpu_id (database.py:43)
unique_ok(table, gpu_id) == \A k \in 1..Len(table) : table[k].gpu_id # gpu_id

\* the INSERT flushed at commit
meta_flush_insert(table, args, now) ==
    table \o << [id |-> Len(table) + 1, gpu_id |-> args.gpu_id, node |-> args.node,
                 model |-> args.model, location |-> args.location,
                 max_temp |-> args.max_temp, created_at |-> now, updated_at |-> now] >>

(* ------------------------------- actions ------------------------------ *)

IdleCall == [op |-> "", pending |-> <<>>, args |-> NoArgs, existing |-> None,
             count |-> 0, facts |-> NoFacts]

NoCall == [op |-> "", outcome |-> "", value |-> None, err |-> NoError,
           facts |-> NoFacts]

\* the state after DatabaseManager() and GPUDataProcessor(db_manager), with
\* the request threads of `workers` idle
InitWith(workers) ==
    /\ events = <<>>
    /\ origin = <<>>
    /\ gpu_metadata = <<>>
    /\ clock = 0
    /\ pc = [p \in workers |-> "idle"]
    /\ call = [p \in workers |-> IdleCall]
    /\ last = NoCall

\* requests are served one after another
Init == InitWith({"w1"})

\* two requests may be served at the same time
InitConcurrent == InitWith({"w1", "w2"})

Finished(op, outcome, value, err, facts) ==
    [op |-> op, outcome |-> outcome, value |-> value, err |-> err, facts |-> facts]

\* the operations that open a session with self.SessionLocal()
SessionOps == {"insert_gpu_metadata", "get_gpu_data", "get_all_gpus",
               "bulk_insert_events"}

\* those of them that commit
WriteOps == {"insert_gpu_metadata", "bulk_insert_events"}

\* the exceptions of the store that derive from SQLAlchemyError
SQLAlchemyErrors == {"SQLAlchemyError", "OperationalError", "DataError",
                     "IntegrityError"}

\* the session when a store operation ends.  Each operation closes it before
\* it returns; its only handler is `except SQLAlchemyError`, which rolls a
\* write back and closes; any other exception leaves the method with the
\* session as it was
session_after(op, error) ==
    IF error = ""
    THEN [session |-> "closed",
          transaction |-> IF op \in WriteOps THEN "committed" ELSE "none"]
    ELSE IF error \in SQLAlchemyErrors
    THEN [session |-> "closed",
          transaction |-> IF op \in WriteOps THEN "rolled_back" ELSE "none"]
    ELSE [session |-> "open", transaction |-> "none"]

\* the session a direct insert_gpu_metadata call leaves
upsert_session(raised) ==
    session_after("insert_gpu_metadata", IF raised THEN "SQLAlchemyError" ELSE "")

\* a plausible slip: the node is passed in the place of the model
upsert_args_node_as_model(pair) ==
    [gpu_id |-> pair[1], node |-> None, model |-> Some(pair[2]), location |-> None,
     max_temp |-> None]

\* data_processor.py:178-181: only gpu_id and node are passed
upsert_args(pair) == [gpu_id |-> pair[1], node |-> Some(pair[2]), model |-> None,
                      location |-> None, max_temp |-> None]

\* process_csv_file from its start to the commit of the bulk insert: the
\* file is read, mapped and cleaned in memory and the events are written in
\* one transaction.  The metadata upserts follow as steps of their own.
ProcessCsvFile(p, job, storeFails) ==
    /\ pc[p] = "idle"
    /\ LET res == bulk_insert_events(events, job.data, clock, storeFails)
           done(outcome, value, err) ==
               Finished("process_csv_file", outcome, value, err, job.facts)
       IN  IF job.err # NoError
           THEN /\ ~storeFails
                /\ last' = done("raised", None, job.err)
                /\ UNCHANGED <<events, origin, gpu_metadata, clock, pc, call>>
           ELSE IF Len(job.data) = 0
           THEN /\ ~storeFails
                /\ last' = done("returned", Some(0), NoError)
                /\ UNCHANGED <<events, origin, gpu_metadata, clock, pc, call>>
           ELSE IF res.error # ""
           THEN /\ events' = res.table
                /\ origin' = SubSeq(origin \o job.origin, 1, Len(res.table))
                /\ last' = done("raised", None, Error(res.error))
                /\ UNCHANGED <<gpu_metadata, clock, pc, call>>
           ELSE /\ events' = res.table
                /\ origin' = SubSeq(origin \o job.origin, 1, Len(res.table))
                /\ clock' = clock + 1
                /\ pc' = [pc EXCEPT ![p] = "query"]
                /\ call' = [call EXCEPT ![p] =
                               [op |-> "process_csv_file",
                                pending |-> Tail(job.gpus),
                                args |-> upsert_args(Head(job.gpus)),
                                existing |-> None,
                                count |-> res.count,
                                facts |-> job.facts]]
                /\ UNCHANGED <<gpu_metadata, last>>

\* the arguments of the direct insert_gpu_metadata calls
MetadataCalls ==
    { [gpu_id |-> G1, node |-> None, model |-> Some(modelA),
       location |-> Some(rack1), max_temp |-> Some(90)],
      [gpu_id |-> G1, node |-> Some(<<>>), model |-> Some(modelH),
       location |-> None, max_temp |-> Some(0)] }

\* insert_gpu_metadata is entered (database.py:180)
InsertGpuMetadata(p, args) ==
    /\ pc[p] = "idle"
    /\ pc' = [pc EXCEPT ![p] = "query"]
    /\ call' = [call EXCEPT ![p] = [IdleCall EXCEPT !.op = "insert_gpu_metadata",
                                                    !.args = args]]
    /\ UNCHANGED <<events, origin, gpu_metadata, clock, last>>

\* a plausible slip: the error of an upsert is not caught by the loop
UpsertDone_abort(p, raised, value) ==
    IF call[p].op = "insert_gpu_metadata" \/ raised
    THEN /\ pc' = [pc EXCEPT ![p] = "idle"]
         /\ call' = [call EXCEPT ![p] = IdleCall]
         /\ last' = Finished(call[p].op,
                             IF raised THEN "raised" ELSE "returned", value,
                             IF raised THEN Error("SQLAlchemyError") ELSE NoError,
                             call[p].facts) @@ upsert_session(raised)
    ELSE IF call[p].pending = <<>>
    THEN /\ pc' = [pc EXCEPT ![p] = "idle"]
         /\ call' = [call EXCEPT ![p] = IdleCall]
         /\ last' = Finished("process_csv_file", "returned", Some(call[p].count),
                             NoError, call[p].facts)
    ELSE /\ pc' = [pc EXCEPT ![p] = "query"]
         /\ call' = [call EXCEPT ![p].pending = Tail(@),
                                 ![p].args = upsert_args(Head(call[p].pending)),
                                 ![p].existing = None]
         /\ UNCHANGED last

\* insert_gpu_metadata has returned `value` or raised: a direct call ends;
\* inside process_csv_file the error is logged and the loop goes on with the
\* next (gpu_id, node) pair, or returns processed_count after the last one
UpsertDone(p, raised, value) ==
    IF call[p].op = "insert_gpu_metadata"
    THEN /\ pc' = [pc EXCEPT ![p] = "idle"]
         /\ call' = [call EXCEPT ![p] = IdleCall]
         /\ last' = Finished("insert_gpu_metadata",
                             IF raised THEN "raised" ELSE "returned", value,
                             IF raised THEN Error("SQLAlchemyError") ELSE NoError,
                             NoFacts) @@ upsert_session(raised)
    ELSE IF call[p].pending = <<>>
    THEN /\ pc' = [pc EXCEPT ![p] = "idle"]
         /\ call' = [call EXCEPT ![p] = IdleCall]
         /\ last' = Finished("process_csv_file", "returned", Some(call[p].count),
                             NoError, call[p].facts)
    ELSE /\ pc' = [pc EXCEPT ![p] = "query"]
         /\ call' = [call EXCEPT ![p].pending = Tail(@),
                                 ![p].args = upsert_args(Head(call[p].pending)),
                                 ![p].existing = None]
         /\ UNCHANGED last

\* database.py:183, the SELECT of the read-then-write sequence
MetaQuery(p, storeFails) ==
    /\ pc[p] = "query"
    /\ IF storeFails
       THEN UpsertDone(p, TRUE, None)
       ELSE /\ pc' = [pc EXCEPT ![p] = "commit"]
            /\ call' = [call EXCEPT ![p].existing =
                             meta_query(gpu_metadata, call[p].args.gpu_id)]
            /\ UNCHANGED last
    /\ UNCHANGED <<events, origin, gpu_metadata, clock>>

\* database.py:185-215, the assignments and session.commit()
MetaCommit(p, storeFails) ==
    /\ pc[p] = "commit"
    /\ LET args == call[p].args
           ex == call[p].existing
       IN  IF storeFails \/ (ex = None /\ ~unique_ok(gpu_metadata, args.gpu_id))
           THEN /\ UpsertDone(p, TRUE, None)
                /\ UNCHANGED <<gpu_metadata, clock>>
           ELSE /\ clock' = clock + 1
                /\ IF ex # None
                   THEN /\ gpu_metadata' =
                              meta_flush_update(gpu_metadata, ex[1],
                                                meta_assign(ex[1], args, clock))
                        /\ UpsertDone(p, FALSE, Some(ex[1].id))
                   ELSE /\ gpu_metadata' = meta_flush_insert(gpu_metadata, args, clock)
                        /\ UpsertDone(p, FALSE, None)
    /\ UNCHANGED <<events, origin>>

\* the runs explored hold at most `commits` committed transactions and
\* `stored` events
Within(commits, rows) == clock' <= commits /\ Len(events') <= rows

Next ==
    /\ \E p \in DOMAIN pc :
          \/ \E job \in Ingestions, storeFails \in BOOLEAN :
                 ProcessCsvFile(p, job, storeFails)
          \/ \E args \in MetadataCalls : InsertGpuMetadata(p, args)
          \/ \E storeFails \in BOOLEAN : MetaQuery(p, storeFails)
          \/ \E storeFails \in BOOLEAN : MetaCommit(p, storeFails)
    /\ Within(MaxCommits, MaxEvents)

Spec == Init /\ [][Next]_vars

\* the uploads of the concurrent runs: the one-row files of the sample layout
ConcurrentIngestions ==
    { job \in Ingestions :
        job.file.columns = SampleHeader /\ Len(job.file.rows) = 1 }

NextConcurrent ==
    /\ \E p \in DOMAIN pc :
          \/ \E job \in ConcurrentIngestions, storeFails \in BOOLEAN :
                 ProcessCsvFile(p, job, storeFails)
          \/ \E args \in MetadataCalls : InsertGpuMetadata(p, args)
          \/ \E storeFails \in BOOLEAN : MetaQuery(p, storeFails)
          \/ \E storeFails \in BOOLEAN : MetaCommit(p, storeFails)
    /\ Within(MaxCommits, MaxEvents)

SpecConcurrent == InitConcurrent /\ [][NextConcurrent]_vars

\* history: the file of a call, kept with the facts about it
named(job) == [job EXCEPT !.facts = @ @@ [name |-> job.file]]

NamedIngestions == { named(job) : job \in Ingestions }

\* files are ingested one after another and no metadata upsert fails; a
\* one-row file can be ingested twice (two commits each time)
NextReliable ==
    /\ \E p \in DOMAIN pc :
          \/ \E job \in NamedIngestions, storeFails \in BOOLEAN :
                 ProcessCsvFile(p, job, storeFails)
          \/ MetaQuery(p, FALSE)
          \/ MetaCommit(p, FALSE)
    /\ Within(MaxCommits + 1, MaxEvents)

SpecReliable == Init /\ [][NextReliable]_vars

(* --------------------------- direct store calls ----------------------- *)

\* the attributes of GPUThermalEvent (database.py:26-35)
EventColumns == {"id", "node", "gpu_id", "timestamp", "temperature",
                 "avg_temperature", "issue_type", "reason", "date", "created_at"}

\* GPUThermalEvent(**event_data): the declarative constructor raises
\* TypeError for a keyword that is no attribute of the class
constructor_ok(event_data) == DOMAIN event_data \subseteq EventColumns

\* the lists handed to bulk_insert_events: the dicts the pipeline builds from
\* a one-row file, and the same with the temperature under the key 'temp'
EventLists ==
    { [data |-> job.data, origin |-> job.origin] :
        job \in { j \in ConcurrentIngestions : Len(j.data) = 1 } }
    \cup { [data |-> << job.data[1] @@ [temp |-> job.data[1].temperature] >>,
            origin |-> job.origin] :
            job \in { j \in ConcurrentIngestions :
                        Len(j.data) = 1 /\ j.data[1].gpu_id = G1 } }

\* DatabaseManager.bulk_insert_events called on its own
BulkInsertEvents(p, list, storeFails) ==
    /\ pc[p] = "idle"
    /\ LET res == bulk_insert_events(events, list.data, clock, storeFails)
           done(outcome, value, error) ==
               Finished("bulk_insert_events", outcome, value,
                        IF error = "" THEN NoError ELSE Error(error), NoFacts)
               @@ session_after("bulk_insert_events", error)
       IN  IF \E k \in 1..Len(list.data) : ~constructor_ok(list.data[k])
           THEN /\ ~storeFails
                /\ last' = done("raised", None, "TypeError")
                /\ UNCHANGED <<events, origin, clock>>
           ELSE IF res.error # ""
           THEN /\ last' = done("raised", None, res.error)
                /\ UNCHANGED <<events, origin, clock>>
           ELSE /\ events' = res.table
                /\ origin' = origin \o list.origin
                /\ clock' = clock + 1
                /\ last' = done("returned", Some(res.count), "")
    /\ UNCHANGED <<gpu_metadata, pc, call>>

(* ------------------------------- queries ------------------------------ *)

\* the outcome of a call that took arguments and returned a result
Answered(op, args, result) ==
    Finished(op, "returned", Some(result), NoError, NoFacts) @@ [args |-> args]

\* the spellings of create_sample_csv (data_processor.py:262-270), as
\* DataFrame.to_csv writes them
node_8 == <<"1","0",".","4",".","2","1",".","8">>
node_62 == <<"1","0",".","4",".","2","1",".","6","2">>
GPU_28 == <<"G","P","U","_","2","8">>
GPU_22 == <<"G","P","U","_","2","2">>
d0416 == <<"2","0","2","5","-","0","4","-","1","6">>
Throttled == <<"T","h","r","o","t","t","l","e","d">>

SampleCsvHeader == <<"node", "timestamp", "gpu_id", "temp", "avg_temp", "reason", "date">>

SampleRows ==
    << [node |-> node_8, timestamp |-> d0317, gpu_id |-> GPU_28,
        temperature |-> <<"4","4",".","0">>, avg_temperature |-> <<"2","8",".","0","8">>,
        reason |-> Thermally_Failed, date |-> d0317],
       [node |-> node_8, timestamp |-> d0318, gpu_id |-> GPU_28,
        temperature |-> <<"4","5",".","0">>, avg_temperature |-> <<"2","8",".","6","1">>,
        reason |-> Thermally_Failed, date |-> d0318],
       [node |-> node_62, timestamp |-> d0415, gpu_id |-> GPU_22,
        temperature |-> <<"8","6",".","2","4">>, avg_temperature |-> NaNCell,
        reason |-> Throttled, date |-> d0415],
       [node |-> node_62, timestamp |-> d0416, gpu_id |-> GPU_22,
        temperature |-> <<"9","1",".","2","3">>, avg_temperature |-> NaNCell,
        reason |-> Throttled, date |-> d0416] >>

SampleFile == MakeFile(SampleCsvHeader, SampleRows)

\* the decimal digits of a number, in `width` places
RECURSIVE digits_of(_, _)
digits_of(n, width) ==
    IF width = 0 THEN <<>>
    ELSE digits_of(n \div 10, width - 1) \o <<DigitChars[(n % 10) + 1]>>

\* datetime.isoformat() of a stored day (the time of day is midnight)
isoformat(day) ==
    digits_of(day \div 10000, 4) \o <<"-">> \o digits_of((day \div 100) % 100, 2)
    \o <<"-">> \o digits_of(day % 100, 2)
    \o <<"T","0","0",":","0","0",":","0","0">>

\* `x.isoformat() if x else None` on a nullable DateTime column
iso_or_none(opt) == IF opt = None THEN None ELSE Some(isoformat(opt[1].v))

\* created_at.isoformat(): the tick of the commit, written out
iso_tick(t) == <<"t">> \o digits_of(t, 2)

\* the timestamp a date literal is cast to by the server
cast_timestamp(text) == to_datetime(text)

\* the orders in which rows come back under ORDER BY key DESC: rows with
\* equal keys come in any order
RECURSIVE desc_orders(_)
desc_orders(S) ==
    IF S = {} THEN {<<>>}
    ELSE UNION { { <<x>> \o rest : rest \in desc_orders(S \ {x}) } :
                   x \in { y \in S : \A z \in S : y.key >= z.key } }

\* the arguments of get_gpu_data
NoFilters == [start_date |-> None, end_date |-> None, gpu_id |-> None,
              issue_type |-> None, node |-> None]

\* a plausible slip: the end of the range is excluded
event_matches_end_excluded(e, f) ==
    /\ truthy_str(f.start_date) => e.timestamp.v >= cast_timestamp(f.start_date[1]).v
    /\ truthy_str(f.end_date) => e.timestamp.v < cast_timestamp(f.end_date[1]).v
    /\ truthy_str(f.gpu_id) => e.gpu_id = f.gpu_id[1]
    /\ truthy_str(f.issue_type) => e.issue_type = f.issue_type
    /\ truthy_str(f.node) => e.node = f.node[1]

\* database.py:227-240: the filters added for the arguments that are truthy
event_matches(e, f) ==
    /\ truthy_str(f.start_date) => e.timestamp.v >= cast_timestamp(f.start_date[1]).v
    /\ truthy_str(f.end_date) => e.timestamp.v <= cast_timestamp(f.end_date[1]).v
    /\ truthy_str(f.gpu_id) => e.gpu_id = f.gpu_id[1]
    /\ truthy_str(f.issue_type) => e.issue_type = f.issue_type
    /\ truthy_str(f.node) => e.node = f.node[1]

\* database.py:223-225: events LEFT OUTER JOIN gpu_metadata ON gpu_id; a
\* pair <<k, j>> is event k with metadata row j, j = 0 for no metadata
outer_join(table, meta) ==
    { <<k, j>> \in (1..Len(table)) \X (1..Len(meta)) : table[k].gpu_id = meta[j].gpu_id }
    \cup { <<k, 0>> : k \in { i \in 1..Len(table) :
                                \A j \in 1..Len(meta) : table[i].gpu_id # meta[j].gpu_id } }

\* database.py:246-260
event_dict(table, meta, k, j) ==
    [ id |-> k,
      node |-> table[k].node,
      gpu_id |-> table[k].gpu_id,
      timestamp |-> Some(isoformat(table[k].timestamp.v)),
      temperature |-> table[k].temperature,
      avg_temperature |-> table[k].avg_temperature,
      issue_type |-> table[k].issue_type,
      reason |-> table[k].reason,
      date |-> iso_or_none(table[k].date),
      created_at |-> Some(iso_tick(table[k].created_at)),
      model |-> IF j = 0 THEN None ELSE meta[j].model,
      location |-> IF j = 0 THEN None ELSE meta[j].location ]

\* a date filter the server cannot cast makes the query fail
filters_ok(f) ==
    /\ truthy_str(f.start_date) => ~cast_timestamp(f.start_date[1]).na
    /\ truthy_str(f.end_date) => ~cast_timestamp(f.end_date[1]).na

\* DatabaseManager.get_gpu_data: the lists it may return
get_gpu_data(table, meta, f) ==
    LET rows == { [key |-> table[pair[1]].timestamp.v, k |-> pair[1], j |-> pair[2]] :
                    pair \in { q \in outer_join(table, meta) : event_matches(table[q[1]], f) } }
    IN  { [i \in 1..Len(order) |-> event_dict(table, meta, order[i].k, order[i].j)] :
            order \in desc_orders(rows) }

\* the filters of the get_gpu_data calls: every filter omitted or given, a
\* filter given as the empty text, and the range of the sample query
GpuDataFilters ==
    { [start_date |-> sd, end_date |-> ed, gpu_id |-> g, issue_type |-> t, node |-> n] :
        sd \in {None, Some(d0318)}, ed \in {None, Some(d0318)},
        g \in {None, Some(G1), Some(GPU_28)}, t \in {None, Some(failed)},
        n \in {None, Some(n1)} }
    \cup { [NoFilters EXCEPT !.start_date = Some(d0317), !.end_date = Some(d0318)],
           [NoFilters EXCEPT !.start_date = Some(<<>>), !.gpu_id = Some(<<>>)],
           [NoFilters EXCEPT !.end_date = Some(not_a_date)] }

\* a query is answered from the store as it is; the worker is idle
GetGpuData(p, f) ==
    /\ pc[p] = "idle"
    /\ IF filters_ok(f)
       THEN \E result \in get_gpu_data(events, gpu_metadata, f) :
               last' = Answered("get_gpu_data", f, result)
                       @@ session_after("get_gpu_data", "")
       ELSE last' = Finished("get_gpu_data", "raised", None, Error("DataError"), NoFacts)
                    @@ [args |-> f] @@ session_after("get_gpu_data", "DataError")
    /\ UNCHANGED <<events, origin, gpu_metadata, clock, pc, call>>

\* the parameters of get_summary_stats
NoRange == [start_date |-> None, end_date |-> None]

\* a plausible slip: the end of the range is not applied
where_clause_no_end(e, params) ==
    truthy_str(params.start_date) =>
        e.timestamp.v >= cast_timestamp(params.start_date[1]).v

\* database.py:276-285: WHERE 1=1 [AND timestamp >= :start_date]
\* [AND timestamp <= :end_date]
where_clause(e, params) ==
    /\ truthy_str(params.start_date) =>
           e.timestamp.v >= cast_timestamp(params.start_date[1]).v
    /\ truthy_str(params.end_date) =>
           e.timestamp.v <= cast_timestamp(params.end_date[1]).v

selected(table, params) == { k \in 1..Len(table) : where_clause(table[k], params) }

\* SELECT col, COUNT(*) ... GROUP BY col, as a set of (value, count) pairs
count_by_type(table, K) ==
    { <<t, Cardinality({k \in K : table[k].issue_type = Some(t)})>> :
        t \in { table[k].issue_type[1] : k \in K } }

count_by_gpu(table, K) ==
    { [key |-> Cardinality({k \in K : table[k].gpu_id = g}), gpu_id |-> g] :
        g \in { table[k].gpu_id : k \in K } }

count_by_node(table, K) ==
    { [key |-> Cardinality({k \in K : table[k].node = n}), node |-> n] :
        n \in { table[k].node : k \in K } }

\* LIMIT n
limit(rows, n) == SubSeq(rows, 1, IF Len(rows) < n THEN Len(rows) ELSE n)

RECURSIVE sum_temperature(_, _)
sum_temperature(table, K) ==
    IF K = {} THEN 0
    ELSE LET k == CHOOSE x \in K : TRUE
         IN  table[k].temperature[1].v + sum_temperature(table, K \ {k})

\* AVG, MAX and MIN of the temperature column over the rows K: NULL values
\* are skipped, NaN is a value greater than every number; the average is the
\* pair <<sum, count>>
temperature_aggregates(table, K) ==
    LET valued == { k \in K : table[k].temperature # None }
        numbers == { k \in valued : ~table[k].temperature[1].na }
        nan == numbers # valued
        top == CHOOSE k \in numbers :
                   \A j \in numbers : table[k].temperature[1].v >= table[j].temperature[1].v
        low == CHOOSE k \in numbers :
                   \A j \in numbers : table[k].temperature[1].v <= table[j].temperature[1].v
    IN  IF valued = {} THEN [avg |-> None, max |-> None, min |-> None]
        ELSE [ avg |-> IF nan THEN Some(NA)
                       ELSE Some(Val(<<sum_temperature(table, numbers),
                                       Cardinality(numbers)>>)),
               max |-> IF nan THEN Some(NA) ELSE table[top].temperature,
               min |-> IF numbers = {} THEN Some(NA) ELSE table[low].temperature ]

\* `float(x) if x else None`: None and zero are falsy, NaN is truthy
float_if(x, zero) == IF x = None \/ x = Some(Val(zero)) THEN None ELSE x

\* the five SELECTs of get_summary_stats (database.py:288-334), in the order
\* in which they are executed: the rows statement n may return from `table`
stats_statement(table, params, n) ==
    LET K == selected(table, params)
    IN  CASE n = 1 -> { Cardinality(K) }
          [] n = 2 -> { count_by_type(table, K) }
          [] n = 3 -> { [i \in 1..Len(limit(gpus, 10)) |->
                           [gpu_id |-> gpus[i].gpu_id, count |-> gpus[i].key]] :
                        gpus \in desc_orders(count_by_gpu(table, K)) }
          [] n = 4 -> { temperature_aggregates(table, K) }
          [] n = 5 -> { [i \in 1..Len(nodes) |->
                           [node |-> nodes[i].node, count |-> nodes[i].key]] :
                        nodes \in desc_orders(count_by_node(table, K)) }

\* database.py:336-346: the dict built from what the five statements returned
stats_result(rows) ==
    LET agg == rows[4]
        avg_zero == IF agg.avg \notin {None, Some(NA)} THEN <<0, agg.avg[1].v[2]>> ELSE 0
    IN  [ total_events |-> rows[1],
          events_by_type |-> rows[2],
          top_gpus |-> rows[3],
          events_by_node |-> rows[5],
          temperature_stats |-> [ average |-> float_if(agg.avg, avg_zero),
                                  maximum |-> float_if(agg.max, 0),
                                  minimum |-> float_if(agg.min, 0) ] ]

\* DatabaseManager.get_summary_stats with no commit of another request
\* between its statements: the records it may return
get_summary_stats(table, params) ==
    { stats_result(<<total, types, gpus, temps, nodes>>) :
        total \in stats_statement(table, params, 1),
        types \in stats_statement(table, params, 2),
        gpus \in stats_statement(table, params, 3),
        temps \in stats_statement(table, params, 4),
        nodes \in stats_statement(table, params, 5) }

\* the ranges of the get_summary_stats calls
StatsRanges ==
    { [start_date |-> sd, end_date |-> ed] :
        sd \in {None, Some(d0318)}, ed \in {None, Some(<<>>), Some(d0318)} }
    \cup { [start_date |-> Some(d0317), end_date |-> Some(d0416)],
           [start_date |-> Some(not_a_date), end_date |-> None] }

GetSummaryStats(p, params) ==
    /\ pc[p] = "idle"
    /\ IF filters_ok(params)
       THEN \E result \in get_summary_stats(events, params) :
               last' = Answered("get_summary_stats", params, result)
       ELSE last' = Finished("get_summary_stats", "raised", None, Error("DataError"),
                             NoFacts) @@ [args |-> params]
    /\ UNCHANGED <<events, origin, gpu_metadata, clock, pc, call>>

\* get_summary_stats is entered while other requests are served: the
\* connection is opened (database.py:274)
GetSummaryStatsBegin(p, params) ==
    /\ pc[p] = "idle"
    /\ pc' = [pc EXCEPT ![p] = "stats"]
    /\ call' = [call EXCEPT ![p] = [op |-> "get_summary_stats", args |-> params,
                                    rows |-> <<>>]]
    /\ UNCHANGED <<events, origin, gpu_metadata, clock, last>>

\* the next SELECT of the call is executed.  The connection runs at the
\* default isolation of PostgreSQL, READ COMMITTED: each statement sees what
\* was committed when it starts.  After the fifth the dict is returned
StatsStatement(p) ==
    /\ pc[p] = "stats"
    /\ LET n == Len(call[p].rows) + 1
           params == call[p].args
       IN  IF ~filters_ok(params)
           THEN /\ last' = Finished("get_summary_stats", "raised", None,
                                    Error("DataError"), NoFacts) @@ [args |-> params]
                /\ pc' = [pc EXCEPT ![p] = "idle"]
                /\ call' = [call EXCEPT ![p] = IdleCall]
           ELSE \E row \in stats_statement(events, params, n) :
                   IF n < 5
                   THEN /\ call' = [call EXCEPT ![p].rows = Append(@, row)]
                        /\ UNCHANGED <<pc, last>>
                   ELSE /\ last' = Answered("get_summary_stats", params,
                                            stats_result(Append(call[p].rows, row)))
                        /\ pc' = [pc EXCEPT ![p] = "idle"]
                        /\ call' = [call EXCEPT ![p] = IdleCall]
    /\ UNCHANGED <<events, origin, gpu_metadata, clock>>

\* database.py:357-364: the distinct (gpu_id, model, location, node) rows of
\* events LEFT OUTER JOIN gpu_metadata
distinct_gpus(table, meta) ==
    { [ gpu_id |-> table[pair[1]].gpu_id,
        model |-> IF pair[2] = 0 THEN None ELSE meta[pair[2]].model,
        location |-> IF pair[2] = 0 THEN None ELSE meta[pair[2]].location,
        node |-> IF pair[2] = 0 THEN None ELSE meta[pair[2]].node ] :
        pair \in outer_join(table, meta) }

\* database.py:367-385: the entry of one row, with its two sub-queries
gpu_entry(table, row) ==
    LET mine == { k \in 1..Len(table) : table[k].gpu_id = row.gpu_id }
        latest == CHOOSE k \in mine :
                      \A j \in mine : table[k].timestamp.v >= table[j].timestamp.v
    IN  row @@ [ event_count |-> Cardinality(mine),
                 last_event |-> IF mine = {} THEN None
                                ELSE Some(isoformat(table[latest].timestamp.v)) ]

\* a plausible slip: reverse=True is left out
sorted_by_event_count_ascending(gpus) ==
    { [i \in 1..Len(order) |-> order[Len(order) + 1 - i].row] :
        order \in desc_orders({ [key |-> g.event_count, row |-> g] : g \in gpus }) }

\* sorted(gpus, key=event_count, reverse=True) of a list that came from the
\* store in some order
sorted_by_event_count(gpus) ==
    { [i \in 1..Len(order) |-> order[i].row] :
        order \in desc_orders({ [key |-> g.event_count, row |-> g] : g \in gpus }) }

\* DatabaseManager.get_all_gpus: the lists it may return
get_all_gpus(table, meta) ==
    sorted_by_event_count({ gpu_entry(table, row) : row \in distinct_gpus(table, meta) })

GetAllGpus(p) ==
    /\ pc[p] = "idle"
    /\ \E result \in get_all_gpus(events, gpu_metadata) :
          last' = Answered("get_all_gpus", <<>>, result)
                  @@ session_after("get_all_gpus", "")
    /\ UNCHANGED <<events, origin, gpu_metadata, clock, pc, call>>

QueryOps == {"get_gpu_data", "get_summary_stats", "get_all_gpus"}

\* the uploads of the query runs: the sample file and three one-row files
QueryIngestions ==
    { ingest(SampleFile) }
    \cup { job \in ConcurrentIngestions :
             raw_cell(job.file, 1, "gpu_id") \in {G1, G2_padded} /\ Len(job.data) = 1 }

\* column names a source header is made of: aliases of four fields, the
\* canonical name listed after a higher-priority alias or before it, and a
\* name no field accepts
HeaderNames ==
    <<"temperature", "temp", "gpu_temp", "host", "node", "device", "gpu_id",
      "status", "model">>

\* the headers: the non-empty selections of HeaderNames, in that order
Headers ==
    { SelectSeq(HeaderNames, LAMBDA n : n \in chosen) :
        chosen \in (SUBSET Range(HeaderNames)) \ {{}} }

\* each header with the columns _map_columns gives the frame read from it
Reconciled ==
    { <<header, _map_columns(read_csv(MakeFile(header, <<>>))).columns>> :
        header \in Headers }

\* _map_columns applied to the frame of a file with the given header
MapColumns(header) ==
    /\ \E pair \in Reconciled :
          /\ pair[1] = header
          /\ last' = Answered("_map_columns", header, pair[2])
    /\ UNCHANGED <<events, origin, gpu_metadata, clock, pc, call>>

NextMap == \E header \in Headers : MapColumns(header)

SpecMap == Init /\ [][NextMap]_vars

\* the uploads of the races: one-row files whose row is stored; some name
\* the same GPU on different nodes
RaceIngestions ==
    { job \in NamedIngestions :
        /\ job.file.columns = SampleHeader
        /\ Len(job.file.rows) = 1
        /\ Len(job.data) = 1 }

\* the two uploads served at the same time, the store available throughout
\* (two bulk inserts and two metadata commits)
NextRace ==
    /\ \E p \in DOMAIN pc :
          \/ \E job \in RaceIngestions : ProcessCsvFile(p, job, FALSE)
          \/ MetaQuery(p, FALSE)
          \/ MetaCommit(p, FALSE)
    /\ Within(MaxCommits + 1, MaxEvents)

SpecRace == InitConcurrent /\ [][NextRace]_vars

\* the uploads that run beside a get_summary_stats call
StatsIngestions == { job \in QueryIngestions : Len(job.file.rows) = 1 }

\* the ranges of the get_summary_stats calls that run beside uploads
ConcurrentRanges ==
    { NoRange, [start_date |-> Some(d0318), end_date |-> None],
      [start_date |-> Some(not_a_date), end_date |-> None] }

\* uploads and one get_summary_stats call, served at the same time
NextStats ==
    /\ \E p \in DOMAIN pc :
          \/ \E job \in StatsIngestions : ProcessCsvFile(p, job, FALSE)
          \/ \E storeFails \in BOOLEAN : MetaQuery(p, storeFails)
          \/ \E storeFails \in BOOLEAN : MetaCommit(p, storeFails)
          \/ /\ last.op \notin QueryOps
             /\ \A q \in DOMAIN pc : pc[q] # "stats"
             /\ \E params \in ConcurrentRanges : GetSummaryStatsBegin(p, params)
          \/ StatsStatement(p)
    /\ Within(MaxCommits, MaxEvents)

SpecStats == InitConcurrent /\ [][NextStats]_vars

\* the get_gpu_data calls of these runs: no filter, a GPU, a date the
\* database refuses
SessionFilters ==
    { NoFilters, [NoFilters EXCEPT !.gpu_id = Some(G1)],
      [NoFilters EXCEPT !.end_date = Some(not_a_date)] }

\* the store operations called one after another
NextSession ==
    /\ \E p \in DOMAIN pc :
          \/ \E list \in EventLists, storeFails \in BOOLEAN :
                 BulkInsertEvents(p, list, storeFails)
          \/ \E args \in MetadataCalls : InsertGpuMetadata(p, args)
          \/ \E storeFails \in BOOLEAN : MetaQuery(p, storeFails)
          \/ \E storeFails \in BOOLEAN : MetaCommit(p, storeFails)
          \/ \E f \in SessionFilters : GetGpuData(p, f)
          \/ GetAllGpus(p)
    /\ Within(MaxCommits, MaxEvents)

SpecSession == Init /\ [][NextSession]_vars

\* the store is built by uploads and one query is made of it: a query
\* leaves the store as it is, so nothing is explored after it
NextQuery ==
    /\ last.op \notin QueryOps
    /\ \E p \in DOMAIN pc :
          \/ \E job \in QueryIngestions : ProcessCsvFile(p, job, FALSE)
          \/ \E storeFails \in BOOLEAN : MetaQuery(p, storeFails)
          \/ \E storeFails \in BOOLEAN : MetaCommit(p, storeFails)
          \/ \E f \in GpuDataFilters : GetGpuData(p, f)
          \/ \E params \in StatsRanges : GetSummaryStats(p, params)
          \/ GetAllGpus(p)
    /\ Within(MaxCommits, MaxEvents + 2)

SpecQuery == Init /\ [][NextQuery]_vars

(* ------------------------------- claims ------------------------------- *)

Workers == DOMAIN pc

Ingesting(p) == call[p].op = "process_csv_file"

\* a step in which a call began and ended: process_csv_file raised, or
\* returned without opening a session
ImmediateStep == pc' = pc /\ call' = call /\ last'.op = "process_csv_file"

\* the step in which process_csv_file commits its bulk insert
BulkStep(p) == pc[p] = "idle" /\ pc'[p] = "query" /\ call'[p].op = "process_csv_file"

\* the step in which process_csv_file returns after its metadata upserts
ReturnStep(p) == Ingesting(p) /\ pc[p] # "idle" /\ pc'[p] = "idle"

(* C1: every stored event is classified 'throttled' or 'failed'; none is
   stored with a null or an unrecognised classification. *)
C1_ClassificationCanonical ==
    \A k \in 1..Len(events) : events[k].issue_type \in {Some(throttled), Some(failed)}

C1_Witness ==
    /\ \E k \in 1..Len(events) : events[k].issue_type = Some(throttled)
    /\ \E k \in 1..Len(events) : events[k].issue_type = Some(failed)

(* C2: the count returned by process_csv_file is the number of events the
   call added to the store, and at most the number of data rows of the file:
   the bulk insert adds exactly `count` events, the metadata upserts that
   follow add none, and `count` is the value returned. *)
C2_CountIsEventsAdded ==
    [][ /\ \A p \in Workers :
              /\ BulkStep(p) =>
                    /\ call'[p].count = Len(events') - Len(events)
                    /\ call'[p].count <= call'[p].facts.rows
              /\ (Ingesting(p) /\ pc[p] # "idle") => events' = events
              /\ ReturnStep(p) =>
                    /\ last'.op = "process_csv_file"
                    /\ last'.outcome = "returned"
                    /\ last'.value = Some(call[p].count)
        /\ (ImmediateStep /\ last'.outcome = "returned") =>
              /\ last'.value = Some(Len(events') - Len(events))
              /\ last'.value[1] <= last'.facts.rows ]_vars

C2_Witness ==
    /\ last.op = "process_csv_file"
    /\ last.outcome = "returned"
    /\ last.value = Some(2)
    /\ Len(events) = 2

(* C3: when a required field is absent from the header after alias mapping,
   process_csv_file fails with 'Missing required columns', the error names
   exactly the absent required fields, and no event or metadata record is
   created or modified. *)
C3_MissingColumnsRejected ==
    /\ [](\A p \in Workers : Ingesting(p) => call[p].facts.absent = {})
    /\ []((last.op = "process_csv_file" /\ last.facts.readable
              /\ last.facts.absent # {}) =>
              /\ last.outcome = "raised"
              /\ last.err.type = "ValueError: Missing required columns"
              /\ Range(last.err.missing) = last.facts.absent
              /\ Len(last.err.missing) = Cardinality(last.facts.absent))
    /\ [][ (ImmediateStep /\ last'.facts.absent # {}) => UNCHANGED store ]_vars

C3_Witness ==
    /\ last.err.type = "ValueError: Missing required columns"
    /\ Range(last.err.missing) = {"node", "gpu_id"}
    /\ Len(events) > 0
    /\ Len(gpu_metadata) > 0

(* C4: whenever process_csv_file raises (unreadable file, missing columns,
   or the store failing during the bulk insert) the store is exactly as it
   was before the call; and a call that has committed its events does not
   raise afterwards. *)
C4_RaiseLeavesStoreUnchanged ==
    [][ /\ (ImmediateStep /\ last'.outcome = "raised") => UNCHANGED store
        /\ \A p \in Workers : ReturnStep(p) => last'.outcome = "returned" ]_vars

C4_Witness ==
    /\ last.op = "process_csv_file"
    /\ last.outcome = "raised"
    /\ last.err.type = "OperationalError"
    /\ Len(events) > 0
    /\ Len(gpu_metadata) > 0

(* C5: every stored event has a valid, non-null timestamp, read from a cell
   that is a date; a row whose timestamp does not parse makes no call fail
   (no row is refused by the store) and is not counted in the returned
   count. *)
C5_TimestampsValid ==
    /\ \A k \in 1..Len(events) :
          /\ ~events[k].timestamp.na
          /\ ParseableStamp(origin[k].timestamp)
    /\ \A p \in Workers :
          Ingesting(p) => call[p].count <= call[p].facts.rows - call[p].facts.nat_rows
    /\ last.op = "process_csv_file" =>
          /\ last.err.type # "IntegrityError"
          /\ last.outcome = "returned" =>
                last.value[1] <= last.facts.rows - last.facts.nat_rows

C5_Witness ==
    /\ last.op = "process_csv_file"
    /\ last.outcome = "returned"
    /\ last.facts.nat_rows = 1
    /\ last.value = Some(1)
    /\ Len(events) > 0

\* the synonym table as the specification words it
C6_Synonym(text) ==
    IF text \in { <<"t","h","e","r","m","a","l","l","y"," ","f","a","i","l","e","d">>,
                  <<"t","h","e","r","m","a","l"," ","f","a","i","l","u","r","e">> }
    THEN failed
    ELSE IF text \in { <<"t","h","r","o","t","t","l","e","d">>,
                       <<"t","h","e","r","m","a","l"," ","t","h","r","o","t","t",
                         "l","i","n","g">>,
                       <<"t","h","r","o","t","t","l","i","n","g">> }
    THEN throttled
    ELSE text

\* the reason cells of the input rows, each with its image
C6_Images ==
    { <<r.reason, Some(C6_Synonym(str_lower(str_strip(r.reason))))>> : r \in RowPool }

(* C6: the stored classification is the synonym-table image of the reason
   cell, trimmed and lower-cased; every row spelt 'Thermally Failed',
   'THERMALLY FAILED  ', ' thermal throttling' or 'Throttling' whose
   timestamp parses is stored, as 'failed' and 'throttled'. *)
C6_SynonymImageStored ==
    /\ \A k \in 1..Len(events) :
          /\ <<origin[k].reason, events[k].issue_type>> \in C6_Images
          /\ events[k].issue_type = ExpectedClass(origin[k].reason)
    /\ \A p \in Workers : Ingesting(p) => call[p].count = call[p].facts.recognised
    /\ (last.op = "process_csv_file" /\ last.outcome = "returned") =>
          last.value = Some(last.facts.recognised)

C6_Witness ==
    /\ \E k \in 1..Len(events) :
          /\ origin[k].reason = THERMALLY_FAILED_trailing
          /\ events[k].issue_type = Some(failed)
    /\ \E k \in 1..Len(events) :
          /\ origin[k].reason = thermal_throttling_leading
          /\ events[k].issue_type = Some(throttled)

(* C7: for every readable CSV that has the four required columns, with the
   store available, process_csv_file returns a count and does not raise,
   whatever the rows contain. *)
C7_RowProblemsNeverAbort ==
    (/\ last.op = "process_csv_file"
     /\ last.facts.readable
     /\ last.facts.absent = {}
     /\ last.err.type # "OperationalError") =>
        last.outcome = "returned"

(* C8: the store holds at most one metadata record per GPU identifier,
   also when upserts of two workers interleave. *)
C8_OneRecordPerGpu ==
    \A i, j \in 1..Len(gpu_metadata) :
        gpu_metadata[i].gpu_id = gpu_metadata[j].gpu_id => i = j

\* a worker that found no record is about to insert, and the record is there
C8_Witness ==
    \E p \in Workers :
        /\ pc[p] = "commit"
        /\ call[p].existing = None
        /\ \E k \in 1..Len(gpu_metadata) : gpu_metadata[k].gpu_id = call[p].args.gpu_id

(* C9: an upsert for a GPU that has a record leaves every optional field it
   supplies no value for unchanged, never turns a non-null field into null,
   and keeps the identifier and the creation time of every record. *)
C9_UpsertFrame ==
    [][ \A p \in Workers, f \in BOOLEAN :
          MetaCommit(p, f) =>
              /\ Len(gpu_metadata') >= Len(gpu_metadata)
              /\ \A k \in 1..Len(gpu_metadata) :
                    LET old == gpu_metadata[k]
                        new == gpu_metadata'[k]
                        args == call[p].args
                    IN  /\ new.id = old.id
                        /\ new.gpu_id = old.gpu_id
                        /\ new.created_at = old.created_at
                        /\ args.node = None => new.node = old.node
                        /\ args.model = None => new.model = old.model
                        /\ args.location = None => new.location = old.location
                        /\ args.max_temp = None => new.max_temp = old.max_temp
                        /\ old.node # None => new.node # None
                        /\ old.model # None => new.model # None
                        /\ old.location # None => new.location # None
                        /\ old.max_temp # None => new.max_temp # None
                        /\ old.gpu_id # args.gpu_id => new = old ]_vars

\* the second call supplied a model and no location
C9_Witness ==
    \E k \in 1..Len(gpu_metadata) :
        /\ gpu_metadata[k].model = Some(modelH)
        /\ gpu_metadata[k].location = Some(rack1)
        /\ gpu_metadata[k].max_temp = Some(90)
        /\ gpu_metadata[k].updated_at > gpu_metadata[k].created_at

(* C10, as stated: after an ingestion has run, the metadata record of the
   GPU it referenced carries the model the CSV gave for that GPU. *)
C10_ModelFromLastIngestion ==
    (/\ last.op = "process_csv_file"
     /\ last.outcome = "returned"
     /\ last.value # Some(0)
     /\ \A p \in Workers : pc[p] = "idle") =>
        \A k \in 1..Len(gpu_metadata) :
            (/\ gpu_metadata[k].gpu_id = events[Len(events)].gpu_id
             /\ origin[Len(events)].model # None) =>
                gpu_metadata[k].model = origin[Len(events)].model

(* C10, amended: ingestion takes no model and no location from the CSV; the
   upsert it performs leaves the model and the location of an existing
   record as they were (an earlier non-null location, and an earlier model,
   are preserved) and creates a new record with neither. *)
C10_IngestionKeepsModelAndLocation ==
    [][ \A p \in Workers, f \in BOOLEAN :
          (MetaCommit(p, f) /\ Ingesting(p)) =>
              /\ Len(gpu_metadata') >= Len(gpu_metadata)
              /\ \A k \in 1..Len(gpu_metadata) :
                    /\ gpu_metadata'[k].model = gpu_metadata[k].model
                    /\ gpu_metadata'[k].location = gpu_metadata[k].location
              /\ \A k \in (Len(gpu_metadata) + 1)..Len(gpu_metadata') :
                    /\ gpu_metadata'[k].model = None
                    /\ gpu_metadata'[k].location = None ]_vars

\* an ingestion updated the record a direct call had given a location
C10_Witness ==
    /\ last.op = "process_csv_file"
    /\ last.outcome = "returned"
    /\ Len(events) > 0
    /\ \E k \in 1..Len(gpu_metadata) :
          /\ gpu_metadata[k].gpu_id = events[Len(events)].gpu_id
          /\ gpu_metadata[k].node = Some(events[Len(events)].node)
          /\ gpu_metadata[k].location = Some(rack1)
          /\ gpu_metadata[k].model = Some(modelA)
          /\ origin[Len(events)].model = Some(modelH)
          /\ gpu_metadata[k].updated_at > gpu_metadata[k].created_at

\* the call in progress, or just finished, ingests the file of the call
\* that returned before it
AfterReturnOf(facts) ==
    /\ last.op = "process_csv_file"
    /\ last.outcome = "returned"
    /\ facts.name = last.facts.name

(* C11: when a file is ingested a second time right after a first ingestion
   of it returned, the second call returns the same count, adds that many
   events again, and leaves the number of metadata records as it was. *)
C11_ReingestDuplicatesEventsOnly ==
    [][ /\ (/\ ImmediateStep
             /\ AfterReturnOf(last'.facts)
             /\ last'.err.type # "OperationalError") =>
               /\ last' = last
               /\ UNCHANGED store
        /\ \A p \in Workers :
              /\ (BulkStep(p) /\ AfterReturnOf(call'[p].facts)) =>
                    /\ call'[p].count = last.value[1]
                    /\ Len(events') = Len(events) + last.value[1]
                    /\ gpu_metadata' = gpu_metadata
              /\ (Ingesting(p) /\ pc[p] # "idle" /\ AfterReturnOf(call[p].facts)) =>
                    /\ Len(gpu_metadata') = Len(gpu_metadata)
                    /\ events' = events
                    /\ ReturnStep(p) => last'.value = last.value ]_vars

\* the same row stored twice, one metadata record, created by the first
\* ingestion and updated by the second
C11_Witness ==
    /\ last.op = "process_csv_file"
    /\ last.outcome = "returned"
    /\ last.value = Some(1)
    /\ Len(events) = 2
    /\ origin[1] = origin[2]
    /\ [events[1] EXCEPT !.created_at = 0] = [events[2] EXCEPT !.created_at = 0]
    /\ Len(gpu_metadata) = 1
    /\ gpu_metadata[1].updated_at > gpu_metadata[1].created_at
    /\ \A p \in Workers : pc[p] = "idle"

HasRecord(gpu_id) == \E k \in 1..Len(gpu_metadata) : gpu_metadata[k].gpu_id = gpu_id

\* a call in progress has yet to upsert the GPU
ToBeUpserted(gpu_id) ==
    \E p \in Workers :
        /\ Ingesting(p)
        /\ pc[p] # "idle"
        /\ \/ call[p].args.gpu_id = gpu_id
           \/ \E k \in 1..Len(call[p].pending) : call[p].pending[k][1] = gpu_id

(* C20: when no metadata upsert fails, every GPU identifier of a stored
   event has a metadata record once the ingestion that stored it has
   returned, and no step removes a metadata record or changes its key. *)
C20_EveryStoredGpuHasRecord ==
    /\ [](\A k \in 1..Len(events) :
             HasRecord(events[k].gpu_id) \/ ToBeUpserted(events[k].gpu_id))
    /\ [][ /\ Len(gpu_metadata') >= Len(gpu_metadata)
           /\ \A k \in 1..Len(gpu_metadata) :
                 /\ gpu_metadata'[k].id = gpu_metadata[k].id
                 /\ gpu_metadata'[k].gpu_id = gpu_metadata[k].gpu_id ]_vars

\* one file with two GPUs has been ingested
C20_Witness ==
    /\ \A p \in Workers : pc[p] = "idle"
    /\ Len(gpu_metadata) = 2
    /\ \E i, j \in 1..Len(events) : events[i].gpu_id # events[j].gpu_id
    /\ \A k \in 1..Len(events) : HasRecord(events[k].gpu_id)

\* worker p leaves an upsert without a commit: its query failed, or its
\* commit was refused
FailedUpsertStep(p) ==
    /\ clock' = clock
    /\ \/ pc[p] = "query" /\ pc'[p] # "commit" /\ call'[p] # call[p]
       \/ pc[p] = "commit" /\ pc'[p] # "commit"

(* C12: when the metadata upsert of one GPU fails inside process_csv_file,
   the events stay stored and the call goes on: with the next (gpu_id, node)
   pair of the file if there is one, and otherwise by returning the count of
   the stored events. *)
C12_FailedUpsertSkipped ==
    [][ \A p \in Workers :
          (Ingesting(p) /\ FailedUpsertStep(p)) =>
              /\ UNCHANGED store
              /\ IF call[p].pending = <<>>
                 THEN /\ pc'[p] = "idle"
                      /\ last'.op = "process_csv_file"
                      /\ last'.outcome = "returned"
                      /\ last'.value = Some(call[p].count)
                 ELSE /\ pc'[p] = "query"
                      /\ call'[p].op = "process_csv_file"
                      /\ call'[p].count = call[p].count
                      /\ call'[p].args.gpu_id = call[p].pending[1][1]
                      /\ call'[p].args.node = Some(call[p].pending[1][2])
                      /\ call'[p].pending = Tail(call[p].pending) ]_vars

\* a file with two GPUs was ingested: the upsert of the first failed, the
\* second GPU has its record, and the call returned 2
C12_Witness ==
    /\ last.op = "process_csv_file"
    /\ last.outcome = "returned"
    /\ last.value = Some(2)
    /\ Len(events) = 2
    /\ Len(gpu_metadata) = 1
    /\ gpu_metadata[1].gpu_id = events[2].gpu_id
    /\ gpu_metadata[1].gpu_id # events[1].gpu_id

(* C16: when the file is read, mapped and cleaned without an error and the
   store is available, process_csv_file stores exactly one event for each
   row whose timestamp parses and whose reason is recognised, whatever the
   temperature, average temperature and date cells and the other rows are:
   it returns that number, and does not raise unless there is no such row. *)
C16_RecognisedRowsStored ==
    (/\ last.op = "process_csv_file"
     /\ last.facts.readable
     /\ last.facts.absent = {}
     /\ last.err.type \notin {"OperationalError", "TypeError", "AttributeError"}) =>
        IF last.outcome = "returned"
        THEN last.value = Some(last.facts.recognised)
        ELSE last.facts.recognised = 0

(* C17: a stored event whose temperature cell was not a number ('hot') has
   a null temperature, and no stored event has a temperature or an average
   temperature that is neither null nor a number. *)
C17_UnparseableTemperatureNull ==
    \A k \in 1..Len(events) :
        /\ origin[k].temperature = Some(hot) => events[k].temperature = None
        /\ events[k].temperature # Some(NA)
        /\ events[k].avg_temperature # Some(NA)

\* the alias of field k that reconciliation selects in header h: the first
\* of the field's aliases, in declared order, that is in h
C18_Selected(h, k) ==
    LET names == column_mappings[k].names
    IN  names[Min({i \in 1..Len(names) : names[i] \in Range(h)})]

C18_Present(h, k) == \E a \in Range(column_mappings[k].names) : a \in Range(h)

(* C18: for each of the seven fields, the first alias present in the header
   (in declared priority order) is renamed to the canonical name; every
   other column keeps its name; a field none of whose aliases is present is
   absent from the result; reconciliation returns for every header. *)
C18_FirstAliasRenamed ==
    last.op = "_map_columns" =>
        LET h == last.args
            m == last.value[1]
        IN  /\ last.outcome = "returned"
            /\ Len(column_mappings) = 7
            /\ Len(m) = Len(h)
            /\ \A c \in 1..Len(h) :
                  IF \E k \in 1..7 : C18_Present(h, k) /\ C18_Selected(h, k) = h[c]
                  THEN \E k \in 1..7 :
                          /\ C18_Present(h, k)
                          /\ C18_Selected(h, k) = h[c]
                          /\ m[c] = column_mappings[k].expected
                  ELSE m[c] = h[c]
            /\ \A k \in 1..7 :
                  ~C18_Present(h, k) => column_mappings[k].expected \notin Range(m)

\* 'temp' is selected although 'temperature' comes first in the header,
\* 'node' is selected and 'host' keeps its name, as does 'model'; the
\* header has no reason field
C18_Witness ==
    /\ last.op = "_map_columns"
    /\ last.args = <<"temperature", "temp", "host", "node", "model">>
    /\ last.value = Some(<<"temperature", "temperature", "host", "node", "model">>)

(* C19: after an insert_gpu_metadata call that succeeds, the record of the
   GPU holds, in every optional field for which the call supplied a
   non-null value, exactly the supplied value, whether the record is new or
   existed before. *)
C19_SuppliedValueWritten ==
    [][ \A p \in Workers :
          (MetaCommit(p, FALSE) /\ clock' # clock) =>
              \E k \in 1..Len(gpu_metadata') :
                  LET rec == gpu_metadata'[k]
                      args == call[p].args
                  IN  /\ rec.gpu_id = args.gpu_id
                      /\ args.node # None => rec.node = args.node
                      /\ args.model # None => rec.model = args.model
                      /\ args.location # None => rec.location = args.location
                      /\ args.max_temp # None => rec.max_temp = args.max_temp ]_vars

\* the store holds the sample dataset, ingested once
IsSampleDataset ==
    /\ Len(events) = 4
    /\ \A k \in 1..4 : events[k].gpu_id \in {GPU_28, GPU_22}

\* the filter of the claim: bounds inclusive, equality, omitted (or empty)
\* filters ignored
C13_Satisfies(e, f) ==
    /\ (f.start_date \notin {None, Some(<<>>)}) =>
           e.timestamp.v >= to_datetime(f.start_date[1]).v
    /\ (f.end_date \notin {None, Some(<<>>)}) =>
           e.timestamp.v <= to_datetime(f.end_date[1]).v
    /\ (f.gpu_id \notin {None, Some(<<>>)}) => e.gpu_id = f.gpu_id[1]
    /\ (f.issue_type \notin {None, Some(<<>>)}) => e.issue_type = f.issue_type
    /\ (f.node \notin {None, Some(<<>>)}) => e.node = f.node[1]

(* C13: get_gpu_data returns the stored events that satisfy every filter
   given (range bounds inclusive, the others by equality), each once, most
   recent first; for the sample dataset and the range 2025-03-17 to
   2025-03-18 these are the two 'failed' events of GPU_28 on 10.4.21.8. *)
C13_FilteredEventsMostRecentFirst ==
    (last.op = "get_gpu_data" /\ last.outcome = "returned") =>
        LET f == last.args
            res == last.value[1]
        IN  /\ \A i, j \in 1..Len(res) : res[i].id = res[j].id => i = j
            /\ { res[i].id : i \in 1..Len(res) }
                 = { k \in 1..Len(events) : C13_Satisfies(events[k], f) }
            /\ \A i \in 1..Len(res) :
                  /\ res[i].node = events[res[i].id].node
                  /\ res[i].gpu_id = events[res[i].id].gpu_id
                  /\ res[i].issue_type = events[res[i].id].issue_type
            /\ \A i, j \in 1..Len(res) :
                  i < j => events[res[i].id].timestamp.v >= events[res[j].id].timestamp.v
            /\ (/\ IsSampleDataset
                 /\ f = [NoFilters EXCEPT !.start_date = Some(d0317),
                                          !.end_date = Some(d0318)]) =>
                  /\ Len(res) = 2
                  /\ \A i \in 1..2 :
                        /\ res[i].issue_type = Some(failed)
                        /\ res[i].gpu_id = GPU_28
                        /\ res[i].node = node_8
                  /\ res[1].timestamp = Some(<<"2","0","2","5","-","0","3","-","1","8",
                                               "T","0","0",":","0","0",":","0","0">>)

\* the sample query on the sample dataset
C13_Witness ==
    /\ last.op = "get_gpu_data"
    /\ last.outcome = "returned"
    /\ IsSampleDataset
    /\ last.args = [NoFilters EXCEPT !.start_date = Some(d0317), !.end_date = Some(d0318)]
    /\ Len(last.value[1]) = 2

\* the stored events inside the inclusive range of a get_summary_stats call
C14_InRange(params) ==
    { k \in 1..Len(events) :
        /\ (params.start_date \notin {None, Some(<<>>)}) =>
               events[k].timestamp.v >= to_datetime(params.start_date[1]).v
        /\ (params.end_date \notin {None, Some(<<>>)}) =>
               events[k].timestamp.v <= to_datetime(params.end_date[1]).v }

RECURSIVE C14_Sum(_)
C14_Sum(pairs) ==
    IF pairs = {} THEN 0
    ELSE LET pair == CHOOSE x \in pairs : TRUE
         IN  pair[2] + C14_Sum(pairs \ {pair})

(* C14: get_summary_stats reports as total_events the number of stored
   events whose timestamp lies in the inclusive range, and as events_by_type
   the number of such events of each classification that occurs, so the
   counts sum to total_events; over the whole sample dataset it reports 4
   events, 2 'failed' and 2 'throttled'. *)
C14_TotalsByType ==
    (last.op = "get_summary_stats" /\ last.outcome = "returned") =>
        LET K == C14_InRange(last.args)
            res == last.value[1]
            of_type(t) == { k \in K : events[k].issue_type = Some(t) }
        IN  /\ res.total_events = Cardinality(K)
            /\ res.events_by_type
                 = { <<t, Cardinality(of_type(t))>> :
                       t \in { c \in {failed, throttled} : of_type(c) # {} } }
            /\ C14_Sum(res.events_by_type) = res.total_events
            /\ (/\ IsSampleDataset
                 /\ last.args \in {NoRange, [start_date |-> Some(d0317),
                                             end_date |-> Some(d0416)]}) =>
                  /\ res.total_events = 4
                  /\ res.events_by_type = { <<failed, 2>>, <<throttled, 2>> }

\* the statistics of the sample dataset over a range that holds all of it
C14_Witness ==
    /\ last.op = "get_summary_stats"
    /\ last.outcome = "returned"
    /\ IsSampleDataset
    /\ last.args = [start_date |-> Some(d0317), end_date |-> Some(d0416)]
    /\ last.value[1].total_events = 4

(* C15: get_all_gpus returns one entry for each GPU identifier that has a
   stored event and no other, with event_count the number of stored events
   of that GPU and last_event the latest of their timestamps, in
   non-increasing order of event_count. *)
C15_OneEntryPerGpuByCount ==
    (last.op = "get_all_gpus" /\ last.outcome = "returned") =>
        LET res == last.value[1]
            mine(g) == { k \in 1..Len(events) : events[k].gpu_id = g }
        IN  /\ { res[i].gpu_id : i \in 1..Len(res) }
                 = { events[k].gpu_id : k \in 1..Len(events) }
            /\ \A i, j \in 1..Len(res) : res[i].gpu_id = res[j].gpu_id => i = j
            /\ \A i \in 1..Len(res) :
                  /\ res[i].event_count = Cardinality(mine(res[i].gpu_id))
                  /\ \E k \in mine(res[i].gpu_id) :
                        /\ res[i].last_event = Some(isoformat(events[k].timestamp.v))
                        /\ \A j \in mine(res[i].gpu_id) :
                              events[k].timestamp.v >= events[j].timestamp.v
            /\ \A i, j \in 1..Len(res) :
                  i < j => res[i].event_count >= res[j].event_count

\* a list of two GPUs with different numbers of events
C15_Witness ==
    /\ last.op = "get_all_gpus"
    /\ last.outcome = "returned"
    /\ Len(last.value[1]) = 2
    /\ last.value[1][1].event_count = 2
    /\ last.value[1][2].event_count = 1

(* C21: stored events are immutable: no step of an ingestion, of a metadata
   upsert or of a query changes a field of a stored event or removes one;
   the event table after a step is the table before it, possibly with new
   events after the old ones. *)
C21_EventsOnlyAppended ==
    [][ /\ Len(events') >= Len(events)
        /\ SubSeq(events', 1, Len(events)) = events ]_vars

\* a query has answered over events of two ingestions, with a metadata
\* record written in between
C21_Witness ==
    /\ last.op \in QueryOps
    /\ last.outcome = "returned"
    /\ Len(events) >= 2
    /\ events[1].created_at < events[Len(events)].created_at
    /\ gpu_metadata # <<>>

(* C22: every store operation that opens a session (get_gpu_data,
   get_all_gpus, bulk_insert_events, insert_gpu_metadata) ends with the
   session closed, whether it returns or raises, and a write that raised
   has rolled its transaction back. *)
C22_SessionsReleased ==
    last.op \in SessionOps =>
        /\ last.session = "closed"
        /\ (last.op \in WriteOps /\ last.outcome = "raised") =>
               last.transaction = "rolled_back"

(* C23: get_summary_stats reports as average, maximum and minimum the
   average, maximum and minimum of the non-null temperatures of the events
   in the range, a temperature of zero included, and reports a statistic as
   null only when no event in the range has a temperature. *)
C23_TemperatureStatistics ==
    (last.op = "get_summary_stats" /\ last.outcome = "returned") =>
        LET K == C14_InRange(last.args)
            valued == { k \in K : events[k].temperature # None }
            temp(k) == events[k].temperature[1].v
            stats == last.value[1].temperature_stats
        IN  /\ (stats.average = None) <=> (valued = {})
            /\ (stats.maximum = None) <=> (valued = {})
            /\ (stats.minimum = None) <=> (valued = {})
            /\ (valued # {} /\ \A k \in valued : ~events[k].temperature[1].na) =>
                  /\ stats.average
                       = Some(Val(<<sum_temperature(events, valued), Cardinality(valued)>>))
                  /\ \E k \in valued :
                        /\ stats.maximum = Some(Val(temp(k)))
                        /\ \A j \in valued : temp(k) >= temp(j)
                  /\ \E k \in valued :
                        /\ stats.minimum = Some(Val(temp(k)))
                        /\ \A j \in valued : temp(k) <= temp(j)

(* C24: for every stored event the classification found by substring
   matching when the event is built is the canonical value the cleaning
   step left in the reason column: issue_type and reason are stored equal,
   and both are 'throttled' or 'failed'. *)
C24_DerivationsAgree ==
    \A k \in 1..Len(events) :
        /\ events[k].reason # None
        /\ events[k].reason[1] \in valid_reasons
        /\ events[k].issue_type = events[k].reason

\* events of both classes are stored, one of them from a synonym that holds
\* neither canonical word
C24_Witness ==
    /\ \E k \in 1..Len(events) :
          /\ events[k].issue_type = Some(throttled)
          /\ events[k].reason = Some(throttled)
          /\ origin[k].reason = thermal_throttling_leading
    /\ \E k \in 1..Len(events) :
          /\ events[k].issue_type = Some(failed)
          /\ events[k].reason = Some(failed)

(* C25: two concurrent upserts for the same GPU can lose an update.  An
   upsert whose SELECT found no record, and which commits after another call
   has inserted the record of that GPU, is rejected: its step leaves the
   metadata table as it is, so the node it was given is not written.  The
   witness is a run in which this happens to the upload that finishes
   last. *)
C25_StaleInsertRejected ==
    [][ \A p \in Workers :
          ( /\ pc[p] = "commit"
            /\ pc'[p] # "commit"
            /\ call[p].existing = None
            /\ HasRecord(call[p].args.gpu_id) ) =>
              gpu_metadata' = gpu_metadata ]_vars

\* both uploads have stored their event and returned; the one that finished
\* last named a node for the GPU, and the record of the GPU holds the node
\* of the other
C25_Witness ==
    /\ \A p \in Workers : pc[p] = "idle"
    /\ Len(events) = 2
    /\ last.op = "process_csv_file"
    /\ last.outcome = "returned"
    /\ Len(last.facts.name.rows) = 1
    /\ raw_cell(last.facts.name, 1, "gpu_id") = G1
    /\ \E k \in 1..Len(gpu_metadata) :
          /\ gpu_metadata[k].gpu_id = G1
          /\ truthy_str(gpu_metadata[k].node)
          /\ gpu_metadata[k].node # Some(raw_cell(last.facts.name, 1, "node"))

(* C26: after column reconciliation of any header, each canonical field
   name occurs at most once among the column names, also when the header
   holds the canonical name together with a higher-priority alias of the
   same field. *)
C26_CanonicalNamesUnique ==
    (last.op = "_map_columns" /\ last.outcome = "returned") =>
        \A k \in 1..Len(column_mappings) :
            Cardinality({ c \in 1..Len(last.value[1]) :
                            last.value[1][c] = column_mappings[k].expected }) <= 1

(* C27: the statistics of one get_summary_stats call are consistent with
   each other also when an ingestion commits while the call runs:
   total_events is the sum of the counts of events_by_type and the sum of the
   counts of events_by_node. *)
C27_StatisticsConsistent ==
    (last.op = "get_summary_stats" /\ last.outcome = "returned") =>
        LET res == last.value[1]
            by_node == { <<res.events_by_node[i].node, res.events_by_node[i].count>> :
                           i \in 1..Len(res.events_by_node) }
        IN  /\ res.total_events = C14_Sum(res.events_by_type)
            /\ res.total_events = C14_Sum(by_node)

(* C28: a call of insert_gpu_metadata that returns gives the integer
   identifier of the metadata record of its GPU, when it created the record
   as when it updated it; it never returns a null identifier. *)
C28_ReturnsRecordIdentifier ==
    (last.op = "insert_gpu_metadata" /\ last.outcome = "returned") =>
        /\ last.value # None
        /\ \E k \in 1..Len(gpu_metadata) :
              /\ gpu_metadata[k].gpu_id \in { args.gpu_id : args \in MetadataCalls }
              /\ gpu_metadata[k].id = last.value[1]

=============================================================================
